---- MODULE Spec2Model ----
(***************************************************************************)
(* Model of rust-bip85 (src/src/lib.rs): the raw-path entry point derive   *)
(* and the four application encoders derive_priv, derive_xprv, derive_hex  *)
(* and derive_mnemonic.                                                    *)
(*                                                                         *)
(* Every entry point is a pure function of its arguments, so each one is   *)
(* an operator returning the call's outcome together with the log of the   *)
(* calls it made into the external crates (bitcoin::util::bip32,           *)
(* bitcoin::hashes::hmac, secp256k1::SecretKey, bip39::Mnemonic), and one  *)
(* action per entry point applies it to inputs drawn from bounded sets.    *)
(*                                                                         *)
(* A u32 is the record [hi |-> bit 31, lo |-> bits 0..30], so the whole    *)
(* 32-bit range is represented with numbers below 2^31.                    *)
(*                                                                         *)
(* The external primitives are functions whose values the library does not *)
(* control.  They are fixed per behaviour by two variables chosen in Init: *)
(* ckdBad, the set of tree positions at which a child derivation fails,    *)
(* and hashSeed, which selects the 64 bytes HMAC-SHA512 yields for each    *)
(* derived key.                                                            *)
(***************************************************************************)
EXTENDS Integers, Sequences, FiniteSets, TLC

VARIABLES root, ckdBad, hashSeed, call, ret

vars == <<root, ckdBad, hashSeed, call, ret>>

(***************************************************************************)
(* Bounds of the explored input space.                                     *)
(***************************************************************************)
\* indices explored: within IndexSpread of 0, of 2^31 and of 2^32 - 1
IndexSpread == 1
\* lengths explored: within LengthSpread of 16 and of 64, and a few others
LengthSpread == 2
\* word counts explored: 0 .. WordCountMax
WordCountMax == 31

(***************************************************************************)
(* u32 values.                                                             *)
(***************************************************************************)
\* largest value of the low 31 bits: 0x80000000 - 1
Low31Max == 2147483647

U32(n) == [hi |-> 0, lo |-> n]

U32High(n) == [hi |-> 1, lo |-> n]

\* index >= 0x80000000
GeTopBit(u) == u.hi = 1

\* u < n and u > n for a literal n below 2^31
U32Lt(u, n) == u.hi = 0 /\ u.lo < n

U32Gt(u, n) == u.hi = 1 \/ u.lo > n

\* u % 6; 2^31 % 6 = 2
U32Mod6(u) == ((u.lo % 6) + (2 * u.hi)) % 6

(***************************************************************************)
(* bip32::ChildNumber                                                      *)
(***************************************************************************)
Hardened(i) == [hardened |-> TRUE, index |-> i]

Normal(i) == [hardened |-> FALSE, index |-> i]

\* ChildNumber::from_hardened_idx(index): an index with bit 31 set is refused
from_hardened_idx(u) ==
    IF u.hi = 0 THEN [tag |-> "Ok", value |-> Hardened(u.lo)]
                ELSE [tag |-> "Err"]

BIP85_CHILD_NUMBER == Hardened(83696968)

BIP85_WIF_INDEX == Hardened(2)

BIP85_BIP32_INDEX == Hardened(32)

BIP85_HEX_INDEX == Hardened(128169)

BIP85_BIP39_INDEX == Hardened(39)

(***************************************************************************)
(* The external primitives.                                                *)
(***************************************************************************)
\* The private key of a node of the HD tree is identified by the master
\* secret and the child steps leading to the node (the derivation is taken
\* as injective).
ZeroFingerprint == <<0, 0, 0, 0>>

Fingerprint(key) == <<key.sk.master, Len(key.sk.steps), 0, 1>>

\* ExtendedPrivKey::ckd_priv(secp, i): Err at the positions of ckdBad
ckd_priv(key, cn) ==
    IF Append(key.sk.steps, cn) \in ckdBad
    THEN [tag |-> "Err"]
    ELSE [tag |-> "Ok",
          value |-> [network            |-> key.network,
                     depth              |-> key.depth + 1,
                     parent_fingerprint |-> Fingerprint(key),
                     child_number       |-> cn,
                     sk |-> [master |-> key.sk.master,
                             steps  |-> Append(key.sk.steps, cn)]]]

\* ExtendedPrivKey::derive_priv(secp, path): ckd_priv along the path,
\* stopping at the first error
RECURSIVE hd_derive_priv(_, _)
hd_derive_priv(key, path) ==
    IF path = <<>> THEN [tag |-> "Ok", value |-> key]
    ELSE LET r == ckd_priv(key, Head(path))
         IN IF r.tag = "Err" THEN r
                             ELSE hd_derive_priv(r.value, Tail(path))

\* order of the secp256k1 group, big-endian
CurveOrder ==
    <<255, 255, 255, 255, 255, 255, 255, 255,
      255, 255, 255, 255, 255, 255, 255, 254,
      186, 174, 220, 230, 175,  72, 160,  59,
      191, 210,  94, 140, 208,  54,  65,  65>>

CurveOrderMinusOne == [i \in 1..32 |-> IF i = 32 THEN 64 ELSE CurveOrder[i]]

RECURSIVE BytesLess(_, _)
BytesLess(a, b) ==
    IF a = <<>> \/ b = <<>> THEN FALSE
    ELSE IF Head(a) # Head(b) THEN Head(a) < Head(b)
    ELSE BytesLess(Tail(a), Tail(b))

\* SecretKey::from_slice(bytes): 32 bytes, not zero, below the group order
SecretKey_from_slice(bytes) ==
    IF /\ Len(bytes) = 32
       /\ \E i \in 1..32 : bytes[i] # 0
       /\ BytesLess(bytes, CurveOrder)
    THEN [tag |-> "Ok", value |-> bytes]
    ELSE [tag |-> "Err"]

\* bip32::ChainCode::from(&[u8]): the 32 bytes, any value
ChainCode_from(bytes) == bytes

\* Mnemonic::from_entropy(bytes): 128 to 256 bits in multiples of 32; the
\* phrase has one word per 11 bits of entropy plus checksum (1 bit per 32)
Mnemonic_from_entropy(bytes) ==
    LET bits == Len(bytes) * 8
    IN IF bits % 32 = 0 /\ bits >= 128 /\ bits <= 256
       THEN [tag |-> "Ok",
             value |-> [language |-> "English",
                        entropy  |-> bytes,
                        words    |-> (bits + bits \div 32) \div 11]]
       ELSE [tag |-> "Err"]

\* The 64-byte values the keyed hash is explored with: two generic values,
\* and values whose lower or upper half is zero, the group order, the
\* group order minus one, or all ones.
Ramp == [i \in 1..64 |-> i]

Slope == [i \in 1..64 |-> 200 - i]

WithLow(half, rest) == [i \in 1..64 |-> IF i <= 32 THEN half[i] ELSE rest[i]]

WithHigh(half, rest) == [i \in 1..64 |-> IF i > 32 THEN half[i - 32] ELSE rest[i]]

Zero32 == [i \in 1..32 |-> 0]

Ones32 == [i \in 1..32 |-> 255]

HashOutputs ==
    << Ramp,
       Slope,
       WithLow(Zero32, Ramp),
       WithHigh(Zero32, Ramp),
       WithLow(CurveOrder, Slope),
       WithHigh(CurveOrder, Slope),
       WithLow(CurveOrderMinusOne, WithHigh(CurveOrderMinusOne, Ramp)),
       WithLow(Ones32, WithHigh(Ones32, Ramp)) >>

RECURSIVE StepsCode(_, _)
StepsCode(steps, pos) ==
    IF steps = <<>> THEN 0
    ELSE pos * ((Head(steps).index % 251) + (IF Head(steps).hardened THEN 1 ELSE 0))
         + StepsCode(Tail(steps), pos + 1)

\* private_key.to_bytes(): the 32 bytes of the scalar, here its identity
to_bytes(key) == key.sk

\* Hmac<sha512>("bip-entropy-from-k", msg): a fixed function of the message
\* for the whole behaviour, selected by hashSeed
hmac_sha512(msg) ==
    HashOutputs[((msg.master + StepsCode(msg.steps, 1) + hashSeed) % Len(HashOutputs)) + 1]

(***************************************************************************)
(* Outcomes of a call: Ok(value), Err(error) or a panic (an unwrap of an   *)
(* Err), each with the log of the external calls made.                     *)
(***************************************************************************)
Ok(v, w) == [tag |-> "Ok", value |-> v, work |-> w]

Err(kind, v, w) == [tag |-> "Err", error |-> [kind |-> kind, value |-> v], work |-> w]

Panic(line, w) == [tag |-> "Panic", line |-> line, work |-> w]

LogCkd(cn, r) == [op |-> "ckd_priv", arg |-> cn, ok |-> (r.tag = "Ok")]

LogDerive(path, r) == [op |-> "derive_priv", arg |-> path, ok |-> (r.tag = "Ok")]

LogHmac(msg, data) == [op |-> "hmac", arg |-> msg, out |-> data, ok |-> TRUE]

LogSecretKey(bytes, r) == [op |-> "SecretKey::from_slice", arg |-> bytes, ok |-> (r.tag = "Ok")]

LogMnemonic(bytes, r) == [op |-> "Mnemonic::from_entropy", arg |-> bytes, ok |-> (r.tag = "Ok")]

\* &data[a..b] on a Vec<u8>, 0-based and end-exclusive
Slice(data, a, b) == SubSeq(data, a + 1, b)

(***************************************************************************)
(* derive (lib.rs 85-97)                                                   *)
(***************************************************************************)
derive(key, path) ==
    LET r1 == ckd_priv(key, BIP85_CHILD_NUMBER)
        w1 == <<LogCkd(BIP85_CHILD_NUMBER, r1)>>
    IN IF r1.tag = "Err" THEN Panic(91, w1)
       ELSE LET r2 == hd_derive_priv(r1.value, path)
                w2 == Append(w1, LogDerive(path, r2))
            IN IF r2.tag = "Err" THEN Panic(92, w2)
               ELSE LET data == hmac_sha512(to_bytes(r2.value))
                    IN Ok(data, Append(w2, LogHmac(to_bytes(r2.value), data)))

(***************************************************************************)
(* derive_priv (lib.rs 103-119)                                            *)
(***************************************************************************)
priv_path(index) == <<BIP85_WIF_INDEX, from_hardened_idx(index)>>

xprv_path(index) == <<BIP85_BIP32_INDEX, from_hardened_idx(index)>>

\* the length left out of the path
hex_path_without_length(length, index) ==
    <<BIP85_HEX_INDEX, from_hardened_idx(index)>>

hex_path(length, index) ==
    <<BIP85_HEX_INDEX, from_hardened_idx(length), from_hardened_idx(index)>>

\* the language step not hardened
mnemonic_path_normal_language(word_count, index) ==
    <<BIP85_BIP39_INDEX, [tag |-> "Ok", value |-> Normal(0)],
      from_hardened_idx(word_count), from_hardened_idx(index)>>

mnemonic_path(word_count, index) ==
    <<BIP85_BIP39_INDEX, [tag |-> "Ok", value |-> Hardened(0)],
      from_hardened_idx(word_count), from_hardened_idx(index)>>

\* vec![...] of unwrapped results: panics at the first Err
Unwrapped(rs) == [i \in 1..Len(rs) |-> IF i = 1 THEN rs[1] ELSE rs[i].value]

UnwrapFails(rs) == \E i \in 2..Len(rs) : rs[i].tag = "Err"

\* the scalar taken from the upper half of the entropy
derive_priv_upper_half(key, index) ==
    IF GeTopBit(index) THEN Err("InvalidIndex", index, <<>>)
    ELSE IF UnwrapFails(priv_path(index)) THEN Panic(112, <<>>)
    ELSE LET data == derive(key, Unwrapped(priv_path(index)))
         IN IF data.tag # "Ok" THEN data
            ELSE LET sk == SecretKey_from_slice(Slice(data.value, 32, 64))
                     w  == Append(data.work, LogSecretKey(Slice(data.value, 32, 64), sk))
                 IN IF sk.tag = "Err" THEN Panic(117, w)
                    ELSE Ok([compressed |-> TRUE,
                             network    |-> key.network,
                             key        |-> sk.value], w)

derive_priv(key, index) ==
    IF GeTopBit(index) THEN Err("InvalidIndex", index, <<>>)
    ELSE IF UnwrapFails(priv_path(index)) THEN Panic(112, <<>>)
    ELSE LET data == derive(key, Unwrapped(priv_path(index)))
         IN IF data.tag # "Ok" THEN data
            ELSE LET sk == SecretKey_from_slice(Slice(data.value, 0, 32))
                     w  == Append(data.work, LogSecretKey(Slice(data.value, 0, 32), sk))
                 IN IF sk.tag = "Err" THEN Panic(117, w)
                    ELSE Ok([compressed |-> TRUE,
                             network    |-> key.network,
                             key        |-> sk.value], w)

(***************************************************************************)
(* derive_xprv (lib.rs 122-147)                                            *)
(***************************************************************************)
\* scalar and chain code taken from each other's half
derive_xprv_halves_swapped(key, index) ==
    IF GeTopBit(index) THEN Err("InvalidIndex", index, <<>>)
    ELSE IF UnwrapFails(xprv_path(index)) THEN Panic(131, <<>>)
    ELSE LET data == derive(key, Unwrapped(xprv_path(index)))
         IN IF data.tag # "Ok" THEN data
            ELSE LET sk == SecretKey_from_slice(Slice(data.value, 0, 32))
                     w  == Append(data.work, LogSecretKey(Slice(data.value, 0, 32), sk))
                 IN IF sk.tag = "Err" THEN Panic(143, w)
                    ELSE Ok([network            |-> key.network,
                             depth              |-> 0,
                             parent_fingerprint |-> ZeroFingerprint,
                             child_number       |-> Normal(0),
                             private_key |-> [compressed |-> TRUE,
                                              network    |-> key.network,
                                              key        |-> sk.value],
                             chain_code |-> ChainCode_from(Slice(data.value, 32, 64))], w)

derive_xprv(key, index) ==
    IF GeTopBit(index) THEN Err("InvalidIndex", index, <<>>)
    ELSE IF UnwrapFails(xprv_path(index)) THEN Panic(131, <<>>)
    ELSE LET data == derive(key, Unwrapped(xprv_path(index)))
         IN IF data.tag # "Ok" THEN data
            ELSE LET sk == SecretKey_from_slice(Slice(data.value, 32, Len(data.value)))
                     w  == Append(data.work,
                                  LogSecretKey(Slice(data.value, 32, Len(data.value)), sk))
                 IN IF sk.tag = "Err" THEN Panic(143, w)
                    ELSE Ok([network            |-> key.network,
                             depth              |-> 0,
                             parent_fingerprint |-> ZeroFingerprint,
                             child_number       |-> Normal(0),
                             private_key |-> [compressed |-> TRUE,
                                              network    |-> key.network,
                                              key        |-> sk.value],
                             chain_code |-> ChainCode_from(Slice(data.value, 0, 32))], w)

(***************************************************************************)
(* derive_hex (lib.rs 152-171)                                             *)
(***************************************************************************)
\* the index checked only after the derivation
derive_hex_late_index_check(key, length, index) ==
    IF U32Lt(length, 16) \/ U32Gt(length, 64) THEN Err("InvalidLength", length, <<>>)
    ELSE LET data == derive(key, <<BIP85_HEX_INDEX, Hardened(length.lo), Hardened(index.lo)>>)
         IN IF data.tag # "Ok" THEN data
            ELSE IF GeTopBit(index) THEN Err("InvalidIndex", index, data.work)
            ELSE Ok(Slice(data.value, 0, length.lo), data.work)

derive_hex(key, length, index) ==
    IF U32Lt(length, 16) \/ U32Gt(length, 64) THEN Err("InvalidLength", length, <<>>)
    ELSE IF GeTopBit(index) THEN Err("InvalidIndex", index, <<>>)
    ELSE IF UnwrapFails(hex_path(length, index)) THEN Panic(166, <<>>)
    ELSE LET data == derive(key, Unwrapped(hex_path(length, index)))
         IN IF data.tag # "Ok" THEN data
            ELSE Ok(Slice(data.value, 0, length.lo), data.work)

(***************************************************************************)
(* derive_mnemonic (lib.rs 175-197)                                        *)
(***************************************************************************)
derive_mnemonic(key, word_count, index) ==
    IF U32Lt(word_count, 12) \/ U32Gt(word_count, 24) \/ U32Mod6(word_count) # 0
    THEN Err("InvalidWordCount", word_count, <<>>)
    ELSE IF GeTopBit(index) THEN Err("InvalidIndex", index, <<>>)
    ELSE IF UnwrapFails(mnemonic_path(word_count, index)) THEN Panic(190, <<>>)
    ELSE LET data == derive(key, Unwrapped(mnemonic_path(word_count, index)))
         IN IF data.tag # "Ok" THEN data
            ELSE LET len == (word_count.lo * 4) \div 3
                     m   == Mnemonic_from_entropy(Slice(data.value, 0, len))
                     w   == Append(data.work, LogMnemonic(Slice(data.value, 0, len), m))
                 IN IF m.tag = "Err" THEN Panic(195, w)
                    ELSE Ok(m.value, w)

(***************************************************************************)
(* Inputs.                                                                 *)
(***************************************************************************)
Roots ==
    { [network |-> "Bitcoin", depth |-> 0, parent_fingerprint |-> ZeroFingerprint,
       child_number |-> Normal(0), sk |-> [master |-> 1, steps |-> <<>>]],
      [network |-> "Testnet", depth |-> 3, parent_fingerprint |-> <<7, 7, 7, 7>>,
       child_number |-> Hardened(5), sk |-> [master |-> 2, steps |-> <<>>]] }

\* positions of the tree at which the child derivation may fail
BadPositions ==
    { <<BIP85_CHILD_NUMBER>>,
      <<BIP85_CHILD_NUMBER, Hardened(2)>>,
      <<BIP85_CHILD_NUMBER, Hardened(32), Hardened(0)>>,
      <<BIP85_CHILD_NUMBER, Hardened(128169), Hardened(16)>>,
      <<BIP85_CHILD_NUMBER, Hardened(39), Hardened(0), Hardened(12), Hardened(0)>> }

Indices ==
    {U32(n) : n \in 0..IndexSpread}
        \cup {U32(Low31Max - n) : n \in 0..IndexSpread}
        \cup {U32High(n) : n \in 0..IndexSpread}
        \cup {U32High(Low31Max - n) : n \in 0..IndexSpread}

Lengths ==
    {U32(n) : n \in (16 - LengthSpread)..(16 + LengthSpread)}
        \cup {U32(n) : n \in (64 - LengthSpread)..(64 + LengthSpread)}
        \cup {U32(0), U32(32), U32(35), U32(Low31Max),
              U32High(0), U32High(32), U32High(Low31Max)}

WordCounts ==
    {U32(n) : n \in 0..WordCountMax}
        \cup {U32(Low31Max), U32High(0), U32High(10), U32High(Low31Max)}

RawPaths ==
    { <<>>, <<Hardened(0), Hardened(0)>>, <<Hardened(0), Hardened(1)>>,
      <<Normal(0)>>, <<Hardened(2)>> }
        \cup {<<Hardened(2), Hardened(u.lo)>> : u \in {i \in Indices : i.hi = 0}}
        \cup {<<Hardened(32), Hardened(0)>>, <<Hardened(128169), Hardened(16), Hardened(0)>>}

NoArg == U32(0)

(***************************************************************************)
(* The state machine: a master key and the external functions are fixed,   *)
(* then the entry points are called in any order with any inputs.          *)
(***************************************************************************)
NoCall == [fn |-> "none", path |-> <<>>, param |-> NoArg, index |-> NoArg]

NoResult == [tag |-> "None", work |-> <<>>]

Init ==
    /\ root \in Roots
    /\ ckdBad \in {{}} \cup {{p} : p \in BadPositions}
    /\ hashSeed \in 0..(Len(HashOutputs) - 1)
    /\ call = NoCall
    /\ ret = NoResult

CallDerive ==
    \E path \in RawPaths :
        /\ call = NoCall
        /\ call' = [fn |-> "derive", path |-> path, param |-> NoArg, index |-> NoArg]
        /\ ret' = derive(root, path)
        /\ UNCHANGED <<root, ckdBad, hashSeed>>

CallDerivePriv ==
    \E index \in Indices :
        /\ call = NoCall
        /\ call' = [fn |-> "derive_priv", path |-> <<>>, param |-> NoArg, index |-> index]
        /\ ret' = derive_priv(root, index)
        /\ UNCHANGED <<root, ckdBad, hashSeed>>

CallDeriveXprv ==
    \E index \in Indices :
        /\ call = NoCall
        /\ call' = [fn |-> "derive_xprv", path |-> <<>>, param |-> NoArg, index |-> index]
        /\ ret' = derive_xprv(root, index)
        /\ UNCHANGED <<root, ckdBad, hashSeed>>

CallDeriveHex ==
    \E length \in Lengths, index \in Indices :
        /\ call = NoCall
        /\ call' = [fn |-> "derive_hex", path |-> <<>>, param |-> length, index |-> index]
        /\ ret' = derive_hex(root, length, index)
        /\ UNCHANGED <<root, ckdBad, hashSeed>>

CallDeriveMnemonic ==
    \E word_count \in WordCounts, index \in Indices :
        /\ call = NoCall
        /\ call' = [fn |-> "derive_mnemonic", path |-> <<>>, param |-> word_count,
                    index |-> index]
        /\ ret' = derive_mnemonic(root, word_count, index)
        /\ UNCHANGED <<root, ckdBad, hashSeed>>

\* the caller is done with the result (it goes out of scope) and is free to
\* make its next call
Drop ==
    /\ call # NoCall
    /\ call' = NoCall
    /\ ret' = NoResult
    /\ UNCHANGED <<root, ckdBad, hashSeed>>

Next ==
    \/ CallDerive
    \/ CallDerivePriv
    \/ CallDeriveXprv
    \/ CallDeriveHex
    \/ CallDeriveMnemonic
    \/ Drop

Spec == Init /\ [][Next]_vars

(***************************************************************************)
(* Vocabulary of the properties.                                           *)
(***************************************************************************)
Encoders == {"derive_priv", "derive_xprv", "derive_hex", "derive_mnemonic"}

IndexValid == call.index.hi = 0

LengthValid == call.param.hi = 0 /\ call.param.lo \in 16..64

WordCountValid == call.param.hi = 0 /\ call.param.lo \in {12, 18, 24}

ParamsValid ==
    /\ call.fn = "derive_hex" => LengthValid
    /\ call.fn = "derive_mnemonic" => WordCountValid

\* the child steps the call applied to the master key, read off the log of
\* the external calls: the step of ckd_priv, then the path of derive_priv
StepsApplied ==
    IF Len(ret.work) >= 2 /\ ret.work[1].op = "ckd_priv" /\ ret.work[2].op = "derive_priv"
    THEN <<ret.work[1].arg>> \o ret.work[2].arg
    ELSE <<>>

\* the steps of a call of application fn as the specification document states them
ExpectedSteps(fn, param, index) ==
    CASE fn = "derive_priv" ->
            <<Hardened(83696968), Hardened(2), Hardened(index.lo)>>
      [] fn = "derive_xprv" ->
            <<Hardened(83696968), Hardened(32), Hardened(index.lo)>>
      [] fn = "derive_hex" ->
            <<Hardened(83696968), Hardened(128169), Hardened(param.lo), Hardened(index.lo)>>
      [] fn = "derive_mnemonic" ->
            <<Hardened(83696968), Hardened(39), Hardened(0), Hardened(param.lo),
              Hardened(index.lo)>>

\* C1: for each of the four encoders with the other parameters valid, an
\* index >= 2^31 makes the call fail with InvalidIndex carrying that index,
\* and an index <= 2^31 - 1 makes the call succeed.
C1_IndexBound ==
    (call.fn \in Encoders /\ ParamsValid) =>
        /\ ~IndexValid => ret = Err("InvalidIndex", call.index, <<>>)
        /\ IndexValid => ret.tag = "Ok"

\* C2: derive_hex fails with InvalidLength(length) for every length < 16 or
\* > 64 whatever the index; for a length in 16..64 and an index < 2^31 it
\* succeeds and returns the first `length` bytes of the entropy derived for
\* [128169', length', index'].
C2_HexLength ==
    call.fn = "derive_hex" =>
        /\ ~LengthValid => ret = Err("InvalidLength", call.param, <<>>)
        /\ (LengthValid /\ IndexValid) =>
              /\ ret.tag = "Ok"
              /\ Len(ret.value) = call.param.lo
              /\ ret.value =
                    SubSeq(derive(root, <<Hardened(128169), Hardened(call.param.lo),
                                          Hardened(call.index.lo)>>).value,
                           1, call.param.lo)

\* C3: derive_mnemonic fails with InvalidWordCount(word_count) for every
\* word count outside {12, 18, 24} whatever the index; for a word count in
\* {12, 18, 24} and an index < 2^31 it succeeds and hands the first
\* word_count * 4 / 3 bytes (16, 24, 32) of the entropy to the encoder.
C3_MnemonicWordCount ==
    call.fn = "derive_mnemonic" =>
        /\ ~WordCountValid => ret = Err("InvalidWordCount", call.param, <<>>)
        /\ (WordCountValid /\ IndexValid) =>
              /\ ret.tag = "Ok"
              /\ (call.param.lo * 4) % 3 = 0
              /\ (call.param.lo * 4) \div 3 \in {16, 24, 32}
              /\ ret.work[Len(ret.work)].op = "Mnemonic::from_entropy"
              /\ ret.work[Len(ret.work)].arg =
                    SubSeq(ret.work[3].out, 1, (call.param.lo * 4) \div 3)
              /\ ret.value.entropy = ret.work[Len(ret.work)].arg

\* C4: derive hands an error of the HD-derivation primitive (in ckd_priv or
\* in derive_priv) back to its caller as a returned error value and never
\* ends in a fatal fault.
C4_DeriveSurfacesErrors ==
    (call.fn = "derive" /\ \E i \in 1..Len(ret.work) : ~ret.work[i].ok) =>
        ret.tag = "Err"

\* C5: a call of an encoder that ends in InvalidIndex, InvalidLength or
\* InvalidWordCount has performed no HD-derivation step and no HMAC
\* computation.
C5_EagerValidation ==
    (/\ call.fn \in Encoders
     /\ ret.tag = "Err"
     /\ ret.error.kind \in {"InvalidIndex", "InvalidLength", "InvalidWordCount"}) =>
        ret.work = <<>>

C5_Witness ==
    /\ call.fn = "derive_hex"
    /\ LengthValid
    /\ ret = Err("InvalidIndex", call.index, <<>>)

\* C6: every call of an encoder ends in a valid typed output or a returned
\* error value, never in a fatal fault, also when the 32-byte slice that
\* derive_priv or derive_xprv decodes is not a valid scalar.
C6_NoFatalFault ==
    call.fn \in Encoders => ret.tag \in {"Ok", "Err"}

ValidTuples ==
    {[fn |-> fn, param |-> NoArg, index |-> i] :
        fn \in {"derive_priv", "derive_xprv"}, i \in {u \in Indices : u.hi = 0}}
    \cup {[fn |-> "derive_hex", param |-> l, index |-> i] :
        l \in {u \in Lengths : u.hi = 0 /\ u.lo \in 16..64},
        i \in {u \in Indices : u.hi = 0}}
    \cup {[fn |-> "derive_mnemonic", param |-> w, index |-> i] :
        w \in {u \in WordCounts : u.hi = 0 /\ u.lo \in {12, 18, 24}},
        i \in {u \in Indices : u.hi = 0}}

\* the path the encoder of the triple hands to derive
PathOf(t) ==
    Unwrapped(CASE t.fn = "derive_priv" -> priv_path(t.index)
                [] t.fn = "derive_xprv" -> xprv_path(t.index)
                [] t.fn = "derive_hex" -> hex_path(t.param, t.index)
                [] t.fn = "derive_mnemonic" -> mnemonic_path(t.param, t.index))

\* the key the HD primitive reaches from the root along the namespace step
\* and the path
KeyAt(path) == hd_derive_priv(root, <<BIP85_CHILD_NUMBER>> \o path)

\* C10: for a fixed master key, two successful encoder calls that differ in
\* the application, the index or the length / word count walk different
\* paths and so hash different derived keys: no two distinct valid triples
\* map to the same path.
C10_DistinctPaths ==
    (call.fn \in Encoders /\ ret.tag = "Ok") =>
        \A t \in ValidTuples :
            LET same == (t.fn = call.fn /\ t.param = call.param /\ t.index = call.index)
                path == PathOf(t)
                key  == KeyAt(path)
            IN /\ same <=> (<<BIP85_CHILD_NUMBER>> \o path = StepsApplied)
               /\ same <=> (key.tag = "Ok" /\ to_bytes(key.value) = ret.work[3].arg)

C10_Witness ==
    /\ call.fn = "derive_hex"
    /\ ret.tag = "Ok"
    /\ call.param = U32(32)
    /\ call.index = U32(0)
    /\ [fn |-> "derive_xprv", param |-> NoArg, index |-> U32(0)] \in ValidTuples
    /\ [fn |-> "derive_hex", param |-> U32(35), index |-> U32(0)] \in ValidTuples

====
